---- MODULE Spec2Model ----
(***************************************************************************)
(* A model of the `Property` derive macro: attribute parsing (parse.rs),   *)
(* type classification and method generation (generate.rs, lib.rs).        *)
(*                                                                         *)
(* Rust values are encoded as follows.                                     *)
(*   Option<T>        None is <<>>, Some(x) is <<x>>                       *)
(*   Result<T, E>     [ok |-> TRUE, val |-> v, err |-> "none"] or          *)
(*                    [ok |-> FALSE, val |-> <<>>, err |-> message]        *)
(*   enum variants    strings carrying the variant's name                  *)
(*   syn::Error       a short string standing for the message of the error *)
(***************************************************************************)
EXTENDS Integers, Sequences, FiniteSets, TLC

VARIABLES
    pc,       \* position of the macro invocation in its pipeline
    data,     \* syn::Data of the derive input: the kind of declaration
    conf,     \* the FieldConf that parse_attrs is building
    seed,     \* the container's FieldConf, cloned for every field
    cur,      \* the syn::Field whose attributes are being parsed
    fields,   \* Vec<FieldDef> built by parse_named_fields
    methods,  \* Vec<TokenStream> of generated methods (the output)
    err,      \* the syn::Error of the invocation, "none" while there is none
    cattrs,   \* the container attributes consumed so far (input)
    meta,     \* the attribute entry last given to apply_attrs (input)
    naming    \* Option<MethodNameConf> built by the last apply_attrs

vars == <<pc, data, conf, seed, cur, fields, methods, err, cattrs, meta, naming>>

(***************************************************************************)
(* Bounds of the model.                                                    *)
(***************************************************************************)
\* entries of one scope list, e.g. get(public, name = "a", type = "ref")
MaxList == 3
\* named fields of the record
MaxFields == 2
\* attributes of the whole declaration (container and fields)
MaxAttrs == 2

None == <<>>
Some(x) == <<x>>
Ok(v) == [ok |-> TRUE, val |-> v, err |-> "none"]
Err(e) == [ok |-> FALSE, val |-> <<>>, err |-> e]

\* the elements of a sequence
Range(s) == {s[i] : i \in 1..Len(s)}

\* every order in which a HashSet / HashMap may iterate over the keys S
Orders(S) == {o \in [1..Cardinality(S) -> S] : \A i, j \in 1..Cardinality(S) : i # j => o[i] # o[j]}

(***************************************************************************)
(* parse.rs: option tables                                                 *)
(***************************************************************************)
SKIP == "skip"
NAME_OPTION == [key |-> "name", group |-> None]
PREFIX_OPTION == [key |-> "prefix", group |-> None]
SUFFIX_OPTION == [key |-> "suffix", group |-> None]
VISIBILITY_OPTIONS == <<"disable", "public", "crate", "private">>
GET_TYPE_OPTIONS == [key |-> "type", group |-> Some(<<"auto", "ref", "copy", "clone">>)]
SET_TYPE_OPTIONS == [key |-> "type", group |-> Some(<<"ref", "own", "none", "replace">>)]
SET_OPTION_FULL_OPTION == <<"full_option">>
CLR_TYPE_OPTIONS == [key |-> "scope", group |-> Some(<<"auto", "option", "all">>)]

(***************************************************************************)
(* parse.rs: the configuration values                                      *)
(***************************************************************************)
Name(n) == [kind |-> "Name", name |-> n]
Format(p, s) == [kind |-> "Format", prefix |-> p, suffix |-> s]

FieldConf_default ==
    [get  |-> [vis |-> "Crate", name |-> Format("", ""), typ |-> "Auto"],
     set  |-> [vis |-> "Crate", name |-> Format("set_", ""), typ |-> "Ref", full_option |-> FALSE],
     mut_ |-> [vis |-> "Crate", name |-> Format("mut_", "")],
     clr  |-> [vis |-> "Crate", name |-> Format("clear_", ""), scope |-> "Option_"],
     skip |-> FALSE]

\* namevalue_params.get(key)
MapGet(m, k) == IF k \in DOMAIN m THEN Some(m[k]) ELSE None

GetTypeConf_parse_from_input(namevalue_params) ==
    LET t == MapGet(namevalue_params, "type") IN
    IF t = None THEN Ok(None)
    ELSE IF t = Some("auto") THEN Ok(Some("Auto"))
    ELSE IF t = Some("ref") THEN Ok(Some("Ref"))
    ELSE IF t = Some("copy") THEN Ok(Some("Copy_"))
    ELSE IF t = Some("clone") THEN Ok(Some("Clone_"))
    ELSE Err("unreachable result")

SetTypeConf_parse_from_input(namevalue_params) ==
    LET t == MapGet(namevalue_params, "type") IN
    IF t = None THEN Ok(None)
    ELSE IF t = Some("ref") THEN Ok(Some("Ref"))
    ELSE IF t = Some("own") THEN Ok(Some("Own"))
    ELSE IF t = Some("none") THEN Ok(Some("None_"))
    ELSE IF t = Some("replace") THEN Ok(Some("Replace"))
    ELSE Err("unreachable result")

ClrScopeConf_parse_from_input(namevalue_params) ==
    LET t == MapGet(namevalue_params, "scope") IN
    IF t = None THEN Ok(None)
    ELSE IF t = Some("auto") THEN Ok(Some("Auto"))
    ELSE IF t = Some("option") THEN Ok(Some("Option_"))
    ELSE IF t = Some("all") THEN Ok(Some("All"))
    ELSE Err("unreachable result")

VisibilityConf_parse_from_input(input) ==
    IF input = None THEN Ok(None)
    ELSE IF input = Some("disable") THEN Ok(Some("Disable"))
    ELSE IF input = Some("public") THEN Ok(Some("Public"))
    ELSE IF input = Some("crate") THEN Ok(Some("Crate"))
    ELSE IF input = Some("private") THEN Ok(Some("Private"))
    ELSE Err("unreachable result")

\* a slip: Disable gives the empty visibility of a private method
VisibilityConf_to_ts_DisableAsPrivate(vis) ==
    CASE vis = "Disable" -> Some("")
      [] vis = "Public" -> Some("pub")
      [] vis = "Crate" -> Some("pub(crate)")
      [] vis = "Private" -> Some("")

\* Option<TokenStream>: the visibility tokens of a generated method
VisibilityConf_to_ts(vis) ==
    CASE vis = "Disable" -> None
      [] vis = "Public" -> Some("pub")
      [] vis = "Crate" -> Some("pub(crate)")
      [] vis = "Private" -> Some("")

\* a slip: a name given with a prefix or a suffix silently wins
MethodNameConf_parse_from_input_NameWins(namevalue_params) ==
    LET name_opt == MapGet(namevalue_params, "name")
        prefix_opt == MapGet(namevalue_params, "prefix")
        suffix_opt == MapGet(namevalue_params, "suffix")
    IN  IF name_opt # None THEN Ok(Some(Name(name_opt[1])))
        ELSE IF prefix_opt # None /\ suffix_opt # None
             THEN Ok(Some(Format(prefix_opt[1], suffix_opt[1])))
        ELSE IF prefix_opt # None THEN Ok(Some(Format(prefix_opt[1], "")))
        ELSE IF suffix_opt # None THEN Ok(Some(Format("", suffix_opt[1])))
        ELSE Ok(None)

MethodNameConf_parse_from_input(namevalue_params) ==
    LET name_opt == MapGet(namevalue_params, "name")
        prefix_opt == MapGet(namevalue_params, "prefix")
        suffix_opt == MapGet(namevalue_params, "suffix")
    IN  IF name_opt # None
        THEN IF prefix_opt # None \/ suffix_opt # None
             THEN Err("do not set prefix or suffix if name was set")
             ELSE Ok(Some(Name(name_opt[1])))
        ELSE IF prefix_opt # None /\ suffix_opt # None
             THEN Ok(Some(Format(prefix_opt[1], suffix_opt[1])))
        ELSE IF prefix_opt # None THEN Ok(Some(Format(prefix_opt[1], "")))
        ELSE IF suffix_opt # None THEN Ok(Some(Format("", suffix_opt[1])))
        ELSE Ok(None)

\* a slip: a rule with a suffix only keeps the built-in prefix set_
MethodNameConf_complete_KeepsPrefix(name, field_name) ==
    IF name.kind = "Name" THEN name.name
    ELSE (IF name.prefix = "" /\ name.suffix # "" THEN "set_" ELSE name.prefix)
             \o field_name \o name.suffix

MethodNameConf_complete(name, field_name) ==
    IF name.kind = "Name" THEN name.name
    ELSE name.prefix \o field_name \o name.suffix

(***************************************************************************)
(* parse.rs: check_path_params and check_namevalue_params.  Both iterate   *)
(* over a hash collection, so the order of the visit is an argument.       *)
(***************************************************************************)
\* the index of the first group of `options` that lists the flag p, 0 if none
FindGroup(p, options) ==
    LET hits == {i \in 1..Len(options) : p \in Range(options[i])} IN
    IF hits = {} THEN 0 ELSE CHOOSE i \in hits : \A j \in hits : i <= j

\* a slip: a second flag of a group replaces the first one
RECURSIVE check_path_params_loop_LastWins(_, _, _)
check_path_params_loop_LastWins(order, options, result) ==
    IF order = <<>> THEN Ok(result)
    ELSE LET p == Head(order)
             i == FindGroup(p, options)
         IN  IF i = 0 THEN Err("this attribute was unknown")
             ELSE check_path_params_loop_LastWins(Tail(order), options,
                      [result EXCEPT ![i] = Some(p)])

RECURSIVE check_path_params_loop(_, _, _)
check_path_params_loop(order, options, result) ==
    IF order = <<>> THEN Ok(result)
    ELSE LET p == Head(order)
             i == FindGroup(p, options)
         IN  IF i = 0 THEN Err("this attribute was unknown")
             ELSE IF result[i] # None THEN Err("this kind of attribute has been set twice")
             ELSE check_path_params_loop(Tail(order), options, [result EXCEPT ![i] = Some(p)])

check_path_params(order, options) ==
    check_path_params_loop(order, options, [i \in 1..Len(options) |-> None])

\* the option of `options` that accepts the pair (n, v), 0 if none
FindOption(n, v, options) ==
    LET hits == {i \in 1..Len(options) :
                    /\ options[i].key = n
                    /\ options[i].group # None => v \in Range(options[i].group[1])}
    IN  IF hits = {} THEN 0 ELSE CHOOSE i \in hits : \A j \in hits : i <= j

\* a slip: a pair that no option accepts is passed over
RECURSIVE check_namevalue_params_loop_SkipsUnknown(_, _, _, _)
check_namevalue_params_loop_SkipsUnknown(order, params, options, result) ==
    IF order = <<>> THEN Ok(result)
    ELSE LET n == Head(order)
             i == FindOption(n, params[n], options)
         IN  IF i = 0
             THEN check_namevalue_params_loop_SkipsUnknown(Tail(order), params, options, result)
             ELSE check_namevalue_params_loop_SkipsUnknown(Tail(order), params, options,
                      [k \in DOMAIN result \cup {n} |-> IF k = n THEN params[n] ELSE result[k]])

RECURSIVE check_namevalue_params_loop(_, _, _, _)
check_namevalue_params_loop(order, params, options, result) ==
    IF order = <<>> THEN Ok(result)
    ELSE LET n == Head(order)
             i == FindOption(n, params[n], options)
         IN  IF i = 0 THEN Err("this attribute was unknown")
             ELSE check_namevalue_params_loop(Tail(order), params, options,
                      [k \in DOMAIN result \cup {n} |-> IF k = n THEN params[n] ELSE result[k]])

check_namevalue_params(order, params, options) ==
    check_namevalue_params_loop(order, params, options, [k \in {} |-> ""])

(***************************************************************************)
(* parse.rs: FieldConf::apply_attrs.                                       *)
(*                                                                         *)
(* A syn::Meta is [k, id, nested]: k is "Path", "List" or "NameValue", id  *)
(* its path, nested the entries of a list.  An entry of a list is          *)
(* [k, id, str, val]: k as before, or "Lit" for a literal in place of a    *)
(* meta, id the flag or the key, val the literal of a key = literal pair,  *)
(* str whether that literal is a string literal.                           *)
(***************************************************************************)
PathEntry(id) == [k |-> "Path", id |-> id, str |-> FALSE, val |-> ""]
NameValueEntry(id, v) == [k |-> "NameValue", id |-> id, str |-> TRUE, val |-> v]
PathMeta(id) == [k |-> "Path", id |-> id, nested |-> <<>>]
ListMeta(id, nested) == [k |-> "List", id |-> id, nested |-> nested]

\* the result of apply_attrs: the configuration after the call, and the
\* naming rule that MethodNameConf::parse_from_input returned during it
Applied(c, n) == [ok |-> TRUE, conf |-> c, err |-> "none", naming |-> n]
Failed(c, e) == [ok |-> FALSE, conf |-> c, err |-> e, naming |-> None]

\* the first loop of the List arm: fill path_params and namevalue_params
RECURSIVE ScanNested(_, _, _)
ScanNested(nested, path_params, namevalue_params) ==
    IF nested = <<>>
    THEN Ok([path_params |-> path_params, namevalue_params |-> namevalue_params])
    ELSE LET e == Head(nested) IN
         CASE e.k = "Path" ->
                IF e.id \in path_params
                THEN Err("this attribute has been set twice")
                ELSE ScanNested(Tail(nested), path_params \cup {e.id}, namevalue_params)
           [] e.k = "NameValue" ->
                IF ~e.str
                THEN Err("this literal should be a string literal")
                ELSE IF e.id \in DOMAIN namevalue_params
                THEN Err("this attribute has been set twice")
                ELSE ScanNested(Tail(nested), path_params,
                         [k \in DOMAIN namevalue_params \cup {e.id} |->
                             IF k = e.id THEN e.val ELSE namevalue_params[k]])
           [] e.k = "List" -> Err("this attribute should be a path or a name-value pair")
           [] e.k = "Lit" -> Err("this attribute should not be a literal")

\* the arms "get", "set", "mut" and "clr" of the match on the list's ident;
\* porder and norder are the iteration orders of the two hash collections
ApplyScope(self, scope, porder, norder, namevalue_params) ==
    LET path_options ==
            IF scope = "set" THEN <<VISIBILITY_OPTIONS, SET_OPTION_FULL_OPTION>>
            ELSE <<VISIBILITY_OPTIONS>>
        namevalue_options ==
            CASE scope = "get" -> <<NAME_OPTION, PREFIX_OPTION, SUFFIX_OPTION, GET_TYPE_OPTIONS>>
              [] scope = "set" -> <<NAME_OPTION, PREFIX_OPTION, SUFFIX_OPTION, SET_TYPE_OPTIONS>>
              [] scope = "mut" -> <<NAME_OPTION, PREFIX_OPTION, SUFFIX_OPTION>>
              [] scope = "clr" -> <<NAME_OPTION, PREFIX_OPTION, SUFFIX_OPTION, CLR_TYPE_OPTIONS>>
        paths == check_path_params(porder, path_options)
    IN  IF ~paths.ok THEN Failed(self, paths.err) ELSE
    LET namevalues == check_namevalue_params(norder, namevalue_params, namevalue_options)
    IN  IF ~namevalues.ok THEN Failed(self, namevalues.err) ELSE
    LET vis == VisibilityConf_parse_from_input(paths.val[1])
    IN  IF ~vis.ok THEN Failed(self, vis.err) ELSE
    LET name == MethodNameConf_parse_from_input(namevalues.val)
    IN  IF ~name.ok THEN Failed(self, name.err) ELSE
    CASE scope = "get" ->
            LET typ == GetTypeConf_parse_from_input(namevalues.val) IN
            IF ~typ.ok THEN Failed(self, typ.err) ELSE
            Applied([self EXCEPT
                !.get.vis = IF vis.val # None THEN vis.val[1] ELSE @,
                !.get.name = IF name.val # None THEN name.val[1] ELSE @,
                !.get.typ = IF typ.val # None THEN typ.val[1] ELSE @], name.val)
      [] scope = "set" ->
            LET typ == SetTypeConf_parse_from_input(namevalues.val) IN
            IF ~typ.ok THEN Failed(self, typ.err) ELSE
            Applied([self EXCEPT
                !.set.vis = IF vis.val # None THEN vis.val[1] ELSE @,
                !.set.full_option = (paths.val[2] # None),
                !.set.name = IF name.val # None THEN name.val[1] ELSE @,
                !.set.typ = IF typ.val # None THEN typ.val[1] ELSE @], name.val)
      [] scope = "mut" ->
            Applied([self EXCEPT
                !.mut_.vis = IF vis.val # None THEN vis.val[1] ELSE @,
                !.mut_.name = IF name.val # None THEN name.val[1] ELSE @], name.val)
      [] scope = "clr" ->
            LET typ == ClrScopeConf_parse_from_input(namevalues.val) IN
            IF ~typ.ok THEN Failed(self, typ.err) ELSE
            Applied([self EXCEPT
                !.mut_.vis = IF vis.val # None THEN vis.val[1] ELSE @,
                !.mut_.name = IF name.val # None THEN name.val[1] ELSE @,
                !.clr.scope = IF typ.val # None THEN typ.val[1] ELSE @], name.val)

\* apply_attrs for one iteration order of path_params and namevalue_params
ApplyList(self, list, porder, norder, namevalue_params) ==
    IF list.id \in {"get", "set", "mut", "clr"}
    THEN ApplyScope(self, list.id, porder, norder, namevalue_params)
    ELSE Failed(self, "unsupport attribute")

\* every result apply_attrs can give for the meta: one per iteration order
FieldConf_apply_attrs(self, m) ==
    CASE m.k = "Path" ->
            IF m.id = SKIP THEN {Applied([self EXCEPT !.skip = TRUE], None)}
            ELSE {Failed(self, "this attribute was unknown")}
      [] m.k = "List" ->
            LET scan == ScanNested(m.nested, {}, [k \in {} |-> ""]) IN
            IF ~scan.ok THEN {Failed(self, scan.err)}
            ELSE IF scan.val.path_params = {} /\ DOMAIN scan.val.namevalue_params = {}
            THEN {Failed(self, "this attribute should not be empty")}
            ELSE {ApplyList(self, m, porder, norder, scan.val.namevalue_params) :
                     porder \in Orders(scan.val.path_params),
                     norder \in Orders(DOMAIN scan.val.namevalue_params)}
      [] m.k = "NameValue" -> {Failed(self, "this attribute should not be a name-value pair")}

(***************************************************************************)
(* parse.rs: parse_attrs and parse_nested_meta.                            *)
(*                                                                         *)
(* A syn::Attribute is [style, parsed, k, id, nested]: style is "Outer" or *)
(* "Inner", parsed whether parse_meta succeeds on it, k, id and nested the *)
(* meta it parses to.  The entries of nested are syn::NestedMeta: a meta,  *)
(* or a literal (k = "Lit").                                               *)
(***************************************************************************)
ATTR_NAME == "property"

LitMeta == [k |-> "Lit", id |-> "", nested |-> <<>>]

parse_nested_meta(conf_, nested_meta) ==
    IF nested_meta.k = "Lit"
    THEN {Failed(conf_, "the attribute in nested meta should not be a literal")}
    ELSE FieldConf_apply_attrs(conf_, nested_meta)

\* the loop of parse_attrs over list.nested: the first Err leaves it
RECURSIVE parse_nested_metas(_, _)
parse_nested_metas(conf_, nested) ==
    IF nested = <<>> THEN {Applied(conf_, None)}
    ELSE UNION {IF r.ok THEN parse_nested_metas(r.conf, Tail(nested)) ELSE {r} :
                   r \in parse_nested_meta(conf_, Head(nested))}

\* the body of the loop of parse_attrs over attrs, for one attribute
parse_attr(conf_, attr) ==
    IF attr.style # "Outer" THEN {Applied(conf_, None)}
    ELSE IF ~attr.parsed THEN {Failed(conf_, "failed to parse the attributes")}
    ELSE CASE attr.k = "Path" ->
                IF attr.id = ATTR_NAME
                THEN {Failed(conf_, "the attribute should not be a path")}
                ELSE {Applied(conf_, None)}
           [] attr.k = "List" ->
                IF attr.id = ATTR_NAME
                THEN IF attr.nested = <<>>
                     THEN {Failed(conf_, "this attribute should not be empty")}
                     ELSE parse_nested_metas(conf_, attr.nested)
                ELSE {Applied(conf_, None)}
           [] attr.k = "NameValue" ->
                IF attr.id = ATTR_NAME
                THEN {Failed(conf_, "the attribute should not be a name-value pair")}
                ELSE {Applied(conf_, None)}

(***************************************************************************)
(* generate.rs: type expressions and their classification.                 *)
(*                                                                         *)
(* A syn::Type is [kind |-> "Path", segs |-> segments], each segment being *)
(* [ident, angle, args] (angle: the segment has <...> arguments), or       *)
(* [kind |-> "Array", elem, len], or [kind |-> "Other"] (a reference, a    *)
(* tuple, ...).  A GenericArgument is [kind |-> "Type", ty] or             *)
(* [kind |-> "Lifetime", ty |-> <<>>].                                     *)
(***************************************************************************)
Seg(id) == [ident |-> id, angle |-> FALSE, args |-> <<>>]
SegArgs(id, args) == [ident |-> id, angle |-> TRUE, args |-> args]
TypeArg(t) == [kind |-> "Type", ty |-> t]
LifetimeArg == [kind |-> "Lifetime", ty |-> <<>>]
PathType(segs) == [kind |-> "Path", segs |-> segs]
Simple(id) == PathType(<<Seg(id)>>)
Generic(id, args) == PathType(<<SegArgs(id, args)>>)
ArrayType(elem, len) == [kind |-> "Array", elem |-> elem, len |-> len]
SliceType(elem) == [kind |-> "Slice", elem |-> elem]
OtherType == [kind |-> "Other"]

\* the variants of FieldType; Panicked stands for a call that did not return
\* (unreachable!() or an index out of bounds)
Panicked == [tag |-> "Panicked"]
Unhandled(name) == [tag |-> "Unhandled", name |-> name]

\* a slip: the known names are matched against the last segment
FieldType_from_type_LastSegment(ty) ==
    IF ty.kind = "Path"
    THEN LET segs == ty.segs IN
         IF segs # <<>>
         THEN LET id == segs[Len(segs)].ident
                  inner == segs[Len(segs)]
              IN  CASE id \in {"f32", "f64"} -> [tag |-> "Number"]
                    [] id \in {"i8", "i16", "i32", "i64", "i128", "isize"} -> [tag |-> "Number"]
                    [] id \in {"u8", "u16", "u32", "u64", "u128", "usize"} -> [tag |-> "Number"]
                    [] id = "bool" -> [tag |-> "Boolean"]
                    [] id = "char" -> [tag |-> "Character"]
                    [] id = "String" -> [tag |-> "String"]
                    [] id = "Vec" ->
                         IF inner.angle
                         THEN IF Len(inner.args) = 0 THEN Panicked
                              ELSE IF inner.args[1].kind = "Type"
                              THEN [tag |-> "Vector", inner |-> inner.args[1].ty]
                              ELSE Panicked
                         ELSE Panicked
                    [] id = "Box" ->
                         IF inner.angle THEN [tag |-> "Box", args |-> inner.args] ELSE Panicked
                    [] id = "Option" ->
                         IF inner.angle THEN [tag |-> "Option", args |-> inner.args] ELSE Panicked
                    [] OTHER -> Unhandled(Some(segs[Len(segs)].ident))
         ELSE Unhandled(None)
    ELSE IF ty.kind = "Array" THEN [tag |-> "Array", array |-> ty]
    ELSE Unhandled(None)

FieldType_from_type(ty) ==
    IF ty.kind = "Path"
    THEN LET segs == ty.segs IN
         IF segs # <<>>
         THEN LET id == segs[1].ident
                  inner == segs[1]
              IN  CASE id \in {"f32", "f64"} -> [tag |-> "Number"]
                    [] id \in {"i8", "i16", "i32", "i64", "i128", "isize"} -> [tag |-> "Number"]
                    [] id \in {"u8", "u16", "u32", "u64", "u128", "usize"} -> [tag |-> "Number"]
                    [] id = "bool" -> [tag |-> "Boolean"]
                    [] id = "char" -> [tag |-> "Character"]
                    [] id = "String" -> [tag |-> "String"]
                    [] id = "Vec" ->
                         IF inner.angle
                         THEN IF Len(inner.args) = 0 THEN Panicked
                              ELSE IF inner.args[1].kind = "Type"
                              THEN [tag |-> "Vector", inner |-> inner.args[1].ty]
                              ELSE Panicked
                         ELSE Panicked
                    [] id = "Box" ->
                         IF inner.angle THEN [tag |-> "Box", args |-> inner.args] ELSE Panicked
                    [] id = "Option" ->
                         IF inner.angle THEN [tag |-> "Option", args |-> inner.args] ELSE Panicked
                    [] OTHER -> Unhandled(Some(segs[Len(segs)].ident))
         ELSE Unhandled(None)
    ELSE IF ty.kind = "Array" THEN [tag |-> "Array", array |-> ty]
    ELSE Unhandled(None)

\* a slip: an array is read by reference, as an Unhandled type is
RECURSIVE GetType_from_field_type_ArrayByRef(_)
GetType_from_field_type_ArrayByRef(ty) ==
    CASE ty.tag \in {"Number", "Boolean", "Character"} -> [tag |-> "Copy"]
      [] ty.tag = "String" -> [tag |-> "String"]
      [] ty.tag = "Array" -> [tag |-> "Ref"]
      [] ty.tag = "Vector" -> [tag |-> "Slice", slice |-> SliceType(ty.inner)]
      [] ty.tag = "Box" -> [tag |-> "Ref"]
      [] ty.tag = "Option" ->
            IF Len(ty.args) = 1 /\ ty.args[1].kind = "Type"
            THEN LET inner == GetType_from_field_type_ArrayByRef(FieldType_from_type(ty.args[1].ty)) IN
                 IF inner.tag = "Panicked" THEN Panicked
                 ELSE IF inner.tag = "Copy" THEN [tag |-> "Copy"]
                 ELSE [tag |-> "Option", args |-> ty.args]
            ELSE [tag |-> "Option", args |-> ty.args]
      [] ty.tag = "Unhandled" -> [tag |-> "Ref"]
      [] ty.tag = "Panicked" -> Panicked

\* a slip: the argument of an Option is not resolved recursively
RECURSIVE GetType_from_field_type_OptionShallow(_)
GetType_from_field_type_OptionShallow(ty) ==
    CASE ty.tag \in {"Number", "Boolean", "Character"} -> [tag |-> "Copy"]
      [] ty.tag = "String" -> [tag |-> "String"]
      [] ty.tag = "Array" -> [tag |-> "Slice", slice |-> SliceType(ty.array.elem)]
      [] ty.tag = "Vector" -> [tag |-> "Slice", slice |-> SliceType(ty.inner)]
      [] ty.tag = "Box" -> [tag |-> "Ref"]
      [] ty.tag = "Option" ->
            IF Len(ty.args) = 1 /\ ty.args[1].kind = "Type"
            THEN LET inner == FieldType_from_type(ty.args[1].ty) IN
                 IF inner.tag = "Panicked" THEN Panicked
                 ELSE IF inner.tag \in {"Number", "Boolean", "Character"} THEN [tag |-> "Copy"]
                 ELSE [tag |-> "Option", args |-> ty.args]
            ELSE [tag |-> "Option", args |-> ty.args]
      [] ty.tag = "Unhandled" -> [tag |-> "Ref"]
      [] ty.tag = "Panicked" -> Panicked

RECURSIVE GetType_from_field_type(_)
GetType_from_field_type(ty) ==
    CASE ty.tag \in {"Number", "Boolean", "Character"} -> [tag |-> "Copy"]
      [] ty.tag = "String" -> [tag |-> "String"]
      [] ty.tag = "Array" -> [tag |-> "Slice", slice |-> SliceType(ty.array.elem)]
      [] ty.tag = "Vector" -> [tag |-> "Slice", slice |-> SliceType(ty.inner)]
      [] ty.tag = "Box" -> [tag |-> "Ref"]
      [] ty.tag = "Option" ->
            IF Len(ty.args) = 1 /\ ty.args[1].kind = "Type"
            THEN LET inner == GetType_from_field_type(FieldType_from_type(ty.args[1].ty)) IN
                 IF inner.tag = "Panicked" THEN Panicked
                 ELSE IF inner.tag = "Copy" THEN [tag |-> "Copy"]
                 ELSE [tag |-> "Option", args |-> ty.args]
            ELSE [tag |-> "Option", args |-> ty.args]
      [] ty.tag = "Unhandled" -> [tag |-> "Ref"]
      [] ty.tag = "Panicked" -> Panicked

\* a slip: the arm of the Unhandled names is missing
ClrMethod_from_field_type_NoNames(ty) ==
    CASE ty.tag = "Number" -> "SetZero"
      [] ty.tag = "Option" -> "SetNone"
      [] ty.tag \in {"Boolean", "Character"} -> "SetDefault"
      [] ty.tag \in {"String", "Vector"} -> "CallClear"
      [] ty.tag = "Array" -> "FillWithDefault"
      [] OTHER -> "None"

ClrMethod_from_field_type(ty) ==
    CASE ty.tag = "Number" -> "SetZero"
      [] ty.tag = "Option" -> "SetNone"
      [] ty.tag \in {"Boolean", "Character"} -> "SetDefault"
      [] ty.tag \in {"String", "Vector"} -> "CallClear"
      [] ty.tag = "Array" -> "FillWithDefault"
      [] ty.tag = "Unhandled" /\ ty.name # None ->
            IF ty.name[1] \in {"String", "PathBuf", "Vec", "VecDeque", "LinkedList", "HashMap",
                               "BTreeMap", "HashSet", "BTreeSet", "BinaryHeap"}
            THEN "CallClear"
            ELSE "None"
      [] OTHER -> "None"

(***************************************************************************)
(* lib.rs: derive_property_for_field.  A generated method (a TokenStream   *)
(* of the code) is the record                                              *)
(*   [op, field, vis, name, recv, param, ret, body]                        *)
(* op    "get", "set", "mut" or "clr": the block that pushed it            *)
(* field the identifier of the field that the body reads or writes         *)
(* vis   the visibility tokens; name the method's identifier               *)
(* recv  the receiver: "&self", "&mut self" or "mut self"                  *)
(* param None, or Some([shape, into]): shape is "value" (val: T) or        *)
(*       "iter" (val: impl IntoIterator<Item = T>), into the tokens X of   *)
(*       the bound T: Into<X>, a sequence of generic arguments             *)
(* ret   [k, ty]: "ref" is &ty, "own" is ty, "option_ref" is Option<&ty>,  *)
(*       "mut_ref" is &mut ty, "mut_self" is &mut Self, "self" is Self,    *)
(*       "unit" is no return type                                          *)
(* body  the statement of the method, named after what it does             *)
(***************************************************************************)
Method(op, field, vis, name, recv, param, ret, body) ==
    [op |-> op, field |-> field, vis |-> vis, name |-> name, recv |-> recv, param |-> param,
     ret |-> ret, body |-> body]
Ret(k, ty) == [k |-> k, ty |-> ty]
Param(shape, into) == Some([shape |-> shape, into |-> into])

\* a slip: Auto looks at the visibility, a public getter is by reference
GetBlock_PublicByRef(field, prop_field_type) ==
    LET field_conf == field.conf
        visibility == VisibilityConf_to_ts(field_conf.get.vis)
    IN  IF visibility = None THEN Ok(None) ELSE
    LET method_name == MethodNameConf_complete(field_conf.get.name, field.ident)
        get_type ==
            CASE field_conf.get.typ = "Auto" ->
                    IF field_conf.get.vis = "Public" THEN [tag |-> "Ref"]
                    ELSE GetType_from_field_type(prop_field_type)
              [] field_conf.get.typ = "Ref" -> [tag |-> "Ref"]
              [] field_conf.get.typ = "Copy_" -> [tag |-> "Copy"]
              [] field_conf.get.typ = "Clone_" -> [tag |-> "Clone"]
        M(ret, body) == Ok(Some(Method("get", field.ident, visibility[1], method_name, "&self", None, ret, body)))
    IN  CASE get_type.tag = "Panicked" -> Err("panicked")
          [] get_type.tag = "Ref" -> M(Ret("ref", field.ty), "&self.f")
          [] get_type.tag = "Copy" -> M(Ret("own", field.ty), "self.f")
          [] get_type.tag = "Clone" -> M(Ret("own", field.ty), "self.f.clone()")
          [] get_type.tag = "String" -> M(Ret("ref", Simple("str")), "&self.f[..]")
          [] get_type.tag = "Slice" -> M(Ret("ref", get_type.slice), "&self.f[..]")
          [] get_type.tag = "Option" -> M(Ret("option_ref", get_type.args), "self.f.as_ref()")

\* the block of field_conf.get: Ok(None), Ok(Some(method)) or a panic
GetBlock(field, prop_field_type) ==
    LET field_conf == field.conf
        visibility == VisibilityConf_to_ts(field_conf.get.vis)
    IN  IF visibility = None THEN Ok(None) ELSE
    LET method_name == MethodNameConf_complete(field_conf.get.name, field.ident)
        get_type ==
            CASE field_conf.get.typ = "Auto" -> GetType_from_field_type(prop_field_type)
              [] field_conf.get.typ = "Ref" -> [tag |-> "Ref"]
              [] field_conf.get.typ = "Copy_" -> [tag |-> "Copy"]
              [] field_conf.get.typ = "Clone_" -> [tag |-> "Clone"]
        M(ret, body) == Ok(Some(Method("get", field.ident, visibility[1], method_name, "&self", None, ret, body)))
    IN  CASE get_type.tag = "Panicked" -> Err("panicked")
          [] get_type.tag = "Ref" -> M(Ret("ref", field.ty), "&self.f")
          [] get_type.tag = "Copy" -> M(Ret("own", field.ty), "self.f")
          [] get_type.tag = "Clone" -> M(Ret("own", field.ty), "self.f.clone()")
          [] get_type.tag = "String" -> M(Ret("ref", Simple("str")), "&self.f[..]")
          [] get_type.tag = "Slice" -> M(Ret("ref", get_type.slice), "&self.f[..]")
          [] get_type.tag = "Option" -> M(Ret("option_ref", get_type.args), "self.f.as_ref()")

\* a slip: the guard on full_option is dropped from the Option arm
SetArm_FullOptionIgnored(prop_field_type, full_option) ==
    CASE prop_field_type.tag = "Vector" -> "Vector"
      [] prop_field_type.tag = "Option" -> "Option"
      [] OTHER -> "_"

\* the arm that the match of the set block takes
SetArm(prop_field_type, full_option) ==
    CASE prop_field_type.tag = "Vector" -> "Vector"
      [] prop_field_type.tag = "Option" /\ ~full_option -> "Option"
      [] OTHER -> "_"

\* the block of field_conf.set
SetBlock(field, prop_field_type) ==
    LET field_conf == field.conf
        visibility == VisibilityConf_to_ts(field_conf.set.vis)
    IN  IF visibility = None THEN None ELSE
    LET method_name == MethodNameConf_complete(field_conf.set.name, field.ident)
        typ == field_conf.set.typ
        recv == IF typ = "Own" THEN "mut self" ELSE "&mut self"
        M(param, replaced, body) ==
            Some(Method("set", field.ident, visibility[1], method_name, recv, param,
                    CASE typ = "Ref" -> Ret("mut_self", <<>>)
                      [] typ = "Own" -> Ret("self", <<>>)
                      [] typ = "None_" -> Ret("unit", <<>>)
                      [] typ = "Replace" -> Ret("own", field.ty),
                    IF typ = "Replace" THEN replaced ELSE body))
        arm == SetArm(prop_field_type, field_conf.set.full_option)
    IN  CASE arm = "Vector" ->
                M(Param("iter", <<TypeArg(prop_field_type.inner)>>),
                  "mem::replace(&mut self.f, val.into_iter().map(Into::into).collect())",
                  "self.f = val.into_iter().map(Into::into).collect()")
          [] arm = "Option" ->
                M(Param("value", prop_field_type.args),
                  "self.f.replace(val.into())",
                  "self.f = Some(val.into())")
          [] arm = "_" ->
                M(Param("value", <<TypeArg(field.ty)>>),
                  "mem::replace(&mut self.f, val.into())",
                  "self.f = val.into()")

\* the block of field_conf.mut_
MutBlock(field) ==
    LET field_conf == field.conf
        visibility == VisibilityConf_to_ts(field_conf.mut_.vis)
    IN  IF visibility = None THEN None ELSE
        Some(Method("mut", field.ident, visibility[1],
                MethodNameConf_complete(field_conf.mut_.name, field.ident),
                "&mut self", None, Ret("mut_ref", field.ty), "&mut self.f"))

\* a slip: scope All leaves a field without a natural action as it is
ClrResolve_AllKeeps(scope, auto_clr_method) ==
    CASE scope = "Auto" -> auto_clr_method
      [] scope = "Option_" -> IF auto_clr_method = "SetNone" THEN auto_clr_method ELSE "None"
      [] scope = "All" -> auto_clr_method

\* the clr_method of the clr block: the natural action under clr.scope
ClrResolve(scope, auto_clr_method) ==
    CASE scope = "Auto" -> auto_clr_method
      [] scope = "Option_" -> IF auto_clr_method = "SetNone" THEN auto_clr_method ELSE "None"
      [] scope = "All" -> IF auto_clr_method = "None" THEN "SetDefault" ELSE auto_clr_method

\* the block of field_conf.clr
ClrBlock(field, prop_field_type) ==
    LET field_conf == field.conf
        visibility == VisibilityConf_to_ts(field_conf.clr.vis)
    IN  IF visibility = None THEN None ELSE
    LET method_name == MethodNameConf_complete(field_conf.clr.name, field.ident)
        auto_clr_method == ClrMethod_from_field_type(prop_field_type)
        clr_method == ClrResolve(field_conf.clr.scope, auto_clr_method)
        M(body) == Some(Method("clr", field.ident, visibility[1], method_name, "&mut self", None,
                            Ret("unit", <<>>), body))
    IN  CASE clr_method = "SetZero" -> M("self.f = 0")
          [] clr_method = "SetNone" -> M("self.f = None")
          [] clr_method = "SetDefault" -> M("self.f = Default::default()")
          [] clr_method = "CallClear" -> M("self.f.clear()")
          [] clr_method = "FillWithDefault" -> M("self.f.fill_with(Default::default)")
          [] clr_method = "None" -> None

\* Ok(property), or Err("panicked") when classification does not return
derive_property_for_field(field) ==
    LET prop_field_type == FieldType_from_type(field.ty) IN
    IF prop_field_type.tag = "Panicked" THEN Err("panicked") ELSE
    LET get == GetBlock(field, prop_field_type) IN
    IF ~get.ok THEN Err("panicked") ELSE
    Ok(get.val \o SetBlock(field, prop_field_type) \o MutBlock(field)
         \o ClrBlock(field, prop_field_type))

\* a slip: the methods of a field are put in front of the earlier ones
RECURSIVE derive_property_fold_Prepends(_, _)
derive_property_fold_Prepends(fs, r) ==
    IF fs = <<>> THEN Ok(r)
    ELSE LET f == Head(fs) IN
         IF f.conf.skip THEN derive_property_fold_Prepends(Tail(fs), r)
         ELSE LET m == derive_property_for_field(f) IN
              IF ~m.ok THEN m ELSE derive_property_fold_Prepends(Tail(fs), m.val \o r)

\* lib.rs derive_property: the fold over the fields of the container
RECURSIVE derive_property_fold(_, _)
derive_property_fold(fs, r) ==
    IF fs = <<>> THEN Ok(r)
    ELSE LET f == Head(fs) IN
         IF f.conf.skip THEN derive_property_fold(Tail(fs), r)
         ELSE LET m == derive_property_for_field(f) IN
              IF ~m.ok THEN m ELSE derive_property_fold(Tail(fs), r \o m.val)

(***************************************************************************)
(* The inputs of the model.                                                *)
(***************************************************************************)
\* the sequences over S of length at most n
SeqsUpTo(S, n) == UNION {[1..k -> S] : k \in 0..n}

\* entries of a scope list: flags and key = "literal" pairs, known and
\* unknown, a key with a literal that is no string, and a bare literal
ListEntries ==
    {PathEntry(f) : f \in {"public", "crate", "full_option", "bogus"}}
    \cup {NameValueEntry("name", "a"), NameValueEntry("prefix", "p"),
          NameValueEntry("suffix", "s"), NameValueEntry("type", "ref"),
          NameValueEntry("type", "own"), NameValueEntry("type", "bad"),
          NameValueEntry("scope", "all"), NameValueEntry("bogus", "x")}
    \cup {[k |-> "NameValue", id |-> "name", str |-> FALSE, val |-> "1"],
          [k |-> "Lit", id |-> "", str |-> FALSE, val |-> "1"]}

\* the metas given to apply_attrs one at a time: every scope list of at
\* most n entries, and the metas that are no list
Metas(n) ==
    {ListMeta(id, l) : id \in {"get", "set", "mut", "clr", "ord"},
                       l \in SeqsUpTo(ListEntries, n)}
    \cup {PathMeta("skip"), PathMeta("bogus"),
          [k |-> "NameValue", id |-> "get", nested |-> <<>>]}

\* a configuration that differs from the default one in every option
OverriddenConf ==
    [get  |-> [vis |-> "Public", name |-> Name("g"), typ |-> "Clone_"],
     set  |-> [vis |-> "Private", name |-> Format("with_", ""), typ |-> "Own", full_option |-> TRUE],
     mut_ |-> [vis |-> "Disable", name |-> Format("", "_mut")],
     clr  |-> [vis |-> "Crate", name |-> Format("clear_", ""), scope |-> "All"],
     skip |-> FALSE]

\* #[property(nested)], and the attributes that are not of that form
PropertyAttr(nested) ==
    [style |-> "Outer", parsed |-> TRUE, k |-> "List", id |-> ATTR_NAME, nested |-> nested]
OtherAttr(style, parsed, k, id, nested) ==
    [style |-> style, parsed |-> parsed, k |-> k, id |-> id, nested |-> nested]

\* the attributes of the declarations parsed end to end
SampleAttrs ==
    {PropertyAttr(<<PathMeta("skip")>>),
     PropertyAttr(<<ListMeta("get", <<PathEntry("public"), NameValueEntry("name", "a")>>)>>),
     PropertyAttr(<<ListMeta("set", <<PathEntry("full_option")>>)>>),
     PropertyAttr(<<ListMeta("set", <<PathEntry("public")>>)>>),
     PropertyAttr(<<ListMeta("set", <<NameValueEntry("suffix", "_v")>>)>>),
     OtherAttr("Outer", TRUE, "NameValue", "doc", <<>>),
     \* the attributes that parse_attrs rejects
     OtherAttr("Outer", FALSE, "Path", "", <<>>),
     OtherAttr("Outer", TRUE, "Path", ATTR_NAME, <<>>),
     OtherAttr("Outer", TRUE, "NameValue", ATTR_NAME, <<>>),
     PropertyAttr(<<>>),
     PropertyAttr(<<LitMeta>>),
     PropertyAttr(<<PathMeta("bogus")>>),
     PropertyAttr(<<PathMeta("skip"), PathMeta("bogus")>>),
     PropertyAttr(<<PathMeta("bogus"), PathMeta("skip")>>),
     PropertyAttr(<<ListMeta("ord", <<PathEntry("public")>>)>>),
     PropertyAttr(<<ListMeta("get", <<PathEntry("public"), PathEntry("public")>>)>>),
     PropertyAttr(<<ListMeta("mut", <<NameValueEntry("type", "ref")>>)>>),
     PropertyAttr(<<ListMeta("get", <<NameValueEntry("name", "a"),
                                      NameValueEntry("prefix", "p")>>)>>)}

U32 == Simple("u32")

\* the field types of the declarations parsed end to end
SampleTypes ==
    {U32, Generic("Option", <<TypeArg(U32)>>), Generic("Vec", <<TypeArg(Simple("u8"))>>)}

\* the identifier of the i-th field of the record
FieldIdent(i) == CASE i = 1 -> "x" [] i = 2 -> "y" [] i = 3 -> "z" [] OTHER -> "w"

\* the kinds of declaration a derive input can be (syn::Data and syn::Fields)
DataKinds == {"named", "unnamed", "unit", "enum", "union"}

(***************************************************************************)
(* The macro invocation, end to end: ContainerDef::parse, then             *)
(* derive_property.  The declaration is read as the parser walks it: each  *)
(* action draws the next attribute entry or the next field.                *)
(***************************************************************************)
NoField == [ident |-> "", ty |-> OtherType, attrs |-> <<>>]

RECURSIVE CountAttrs(_)
CountAttrs(fs) == IF fs = <<>> THEN 0 ELSE Len(Head(fs).attrs) + CountAttrs(Tail(fs))

\* the attributes consumed so far
AttrsUsed == Len(cattrs) + CountAttrs(fields) + Len(cur.attrs)

Init ==
    /\ pc = "start"
    /\ data \in DataKinds
    /\ conf = FieldConf_default
    /\ seed = FieldConf_default
    /\ cur = NoField
    /\ fields = <<>>
    /\ methods = <<>>
    /\ err = "none"
    /\ cattrs = <<>>
    /\ meta = PathMeta("")
    /\ naming = None

\* a slip: the fields parsed before the error are handed over with it
Fail_KeepsFields(e) ==
    /\ pc' = "failed"
    /\ err' = e
    /\ UNCHANGED <<fields, methods>>

\* an Err leaves the invocation: the values built so far are dropped
Fail(e) ==
    /\ pc' = "failed"
    /\ err' = e
    /\ fields' = <<>>
    /\ methods' = <<>>

\* ContainerDef::parse: the match on the data of the derive input
ParseContainer ==
    /\ pc = "start"
    /\ IF data = "named"
       THEN /\ pc' = "container_attrs"
            /\ UNCHANGED <<err, fields, methods>>
       ELSE IF data \in {"unnamed", "unit"}
       THEN Fail("only support named fields")
       ELSE Fail("only support structs")
    /\ UNCHANGED <<data, conf, seed, cur, cattrs, meta, naming>>

\* parse_attrs for the container: one turn of its loop over attrs
ContainerAttr ==
    /\ pc = "container_attrs"
    /\ AttrsUsed < MaxAttrs
    /\ \E attr \in SampleAttrs : \E r \in parse_attr(conf, attr) :
          /\ cattrs' = Append(cattrs, attr)
          /\ IF r.ok
             THEN /\ conf' = r.conf
                  /\ UNCHANGED <<pc, err, fields, methods>>
             ELSE /\ Fail(r.err)
                  /\ UNCHANGED conf
    /\ UNCHANGED <<data, seed, cur, meta, naming>>

\* parse_attrs returns Ok(conf): parse_named_fields starts with it
ParseNamedFields ==
    /\ pc = "container_attrs"
    /\ pc' = "fields"
    /\ seed' = conf
    /\ UNCHANGED <<data, conf, cur, fields, methods, err, cattrs, meta, naming>>

\* the next field of the loop of parse_named_fields: conf.clone()
NextField ==
    /\ pc = "fields"
    /\ Len(fields) < MaxFields
    /\ \E ty \in SampleTypes :
          cur' = [ident |-> FieldIdent(Len(fields) + 1), ty |-> ty, attrs |-> <<>>]
    /\ conf' = seed
    /\ pc' = "field_attrs"
    /\ UNCHANGED <<data, seed, fields, methods, err, cattrs, meta, naming>>

\* parse_attrs for the field: one turn of its loop over attrs
FieldAttr ==
    /\ pc = "field_attrs"
    /\ AttrsUsed < MaxAttrs
    /\ \E attr \in SampleAttrs : \E r \in parse_attr(conf, attr) :
          /\ cur' = [cur EXCEPT !.attrs = Append(@, attr)]
          /\ IF r.ok
             THEN /\ conf' = r.conf
                  /\ UNCHANGED <<pc, err, fields, methods>>
             ELSE /\ Fail(r.err)
                  /\ UNCHANGED conf
    /\ UNCHANGED <<data, seed, cattrs, meta, naming>>

\* parse_attrs returns Ok(conf): the FieldDef is pushed
PushField ==
    /\ pc = "field_attrs"
    /\ fields' = Append(fields, [ident |-> cur.ident, ty |-> cur.ty, conf |-> conf,
                                 attrs |-> cur.attrs])
    /\ cur' = NoField
    /\ pc' = "fields"
    /\ UNCHANGED <<data, conf, seed, methods, err, cattrs, meta, naming>>

\* a slip: a record without fields is handed over as it is
EndFields_AllowsEmpty ==
    /\ pc = "fields"
    /\ pc' = "derive"
    /\ UNCHANGED <<err, fields, methods>>
    /\ UNCHANGED <<data, conf, seed, cur, cattrs, meta, naming>>

\* the end of parse_named_fields: an empty struct is an error
EndFields ==
    /\ pc = "fields"
    /\ IF fields = <<>>
       THEN Fail("nothing can do for an empty struct")
       ELSE /\ pc' = "derive"
            /\ UNCHANGED <<err, fields, methods>>
    /\ UNCHANGED <<data, conf, seed, cur, cattrs, meta, naming>>

\* derive_property: the methods of every field that is not skipped
DeriveProperty ==
    /\ pc = "derive"
    /\ LET r == derive_property_fold(fields, <<>>) IN
       IF r.ok
       THEN /\ methods' = r.val
            /\ pc' = "done"
            /\ UNCHANGED err
       ELSE /\ methods' = <<>>
            /\ pc' = "panicked"
            /\ err' = r.err
    /\ UNCHANGED <<data, conf, seed, cur, fields, cattrs, meta, naming>>

Next ==
    \/ ParseContainer
    \/ ContainerAttr
    \/ ParseNamedFields
    \/ NextField
    \/ FieldAttr
    \/ PushField
    \/ EndFields
    \/ DeriveProperty

Spec == Init /\ [][Next]_vars

(***************************************************************************)
(* FieldConf::apply_attrs on its own: one call, on a default or an         *)
(* overridden configuration, with any meta of Metas.                       *)
(***************************************************************************)
InitAttrs ==
    /\ pc = "attrs"
    /\ data = "named"
    /\ conf \in {FieldConf_default, OverriddenConf}
    /\ seed = FieldConf_default
    /\ cur = NoField
    /\ fields = <<>>
    /\ methods = <<>>
    /\ err = "none"
    /\ cattrs = <<>>
    /\ meta = PathMeta("")
    /\ naming = None

ApplyAttrs ==
    /\ pc = "attrs"
    /\ \E m \in Metas(MaxList) : \E r \in FieldConf_apply_attrs(conf, m) :
          /\ meta' = m
          /\ naming' = r.naming
          /\ IF r.ok
             THEN /\ conf' = r.conf
                  /\ pc' = "applied"
                  /\ UNCHANGED <<err, fields, methods>>
             ELSE /\ Fail(r.err)
                  /\ UNCHANGED conf
    /\ UNCHANGED <<data, seed, cur, cattrs>>

SpecAttrs == InitAttrs /\ [][ApplyAttrs]_vars

(***************************************************************************)
(* derive_property on its own: one field of any type of GenTypes with any  *)
(* configuration of GenConfs.                                              *)
(***************************************************************************)
Visibilities == {"Disable", "Public", "Crate", "Private"}

GenTypes ==
    {U32, Simple("f64"), Simple("bool"), Simple("char"), Simple("String"),
     Generic("Vec", <<TypeArg(Simple("u8"))>>),
     Generic("Vec", <<TypeArg(Simple("String"))>>),
     Generic("Box", <<TypeArg(Simple("str"))>>),
     Generic("Box", <<TypeArg(U32)>>),
     Generic("Option", <<TypeArg(U32)>>),
     Generic("Option", <<TypeArg(Simple("String"))>>),
     Generic("Option", <<TypeArg(Generic("Option", <<TypeArg(U32)>>))>>),
     Generic("Option", <<TypeArg(Generic("Option", <<TypeArg(Simple("String"))>>))>>),
     Generic("Option", <<TypeArg(U32), TypeArg(U32)>>),
     ArrayType(Simple("u8"), 4),
     Simple("Foo"), Simple("PathBuf"),
     Generic("HashMap", <<TypeArg(U32), TypeArg(U32)>>),
     PathType(<<Seg("std"), Seg("string"), Seg("String")>>),
     PathType(<<Seg("std"), Seg("vec"), SegArgs("Vec", <<TypeArg(U32)>>)>>),
     PathType(<<Seg("std"), Seg("option"), SegArgs("Option", <<TypeArg(U32)>>)>>),
     OtherType,
     Simple("Vec"), Simple("Option"), Simple("Box"),
     Generic("Option", <<TypeArg(Simple("Vec"))>>),
     Generic("Vec", <<>>), Generic("Vec", <<LifetimeArg>>),
     Generic("Vec", <<TypeArg(U32), TypeArg(U32)>>)}

\* the visibilities given to set: off, the default one, and the one without
\* tokens; get is given every visibility, mut and clr are off or on
GenVisibilities == {"Disable", "Crate", "Private"}
GenSwitches == {"Disable", "Crate"}

\* the FieldConfs with the built-in names and these visibilities
GenConfs ==
    {[get  |-> [vis |-> gv, name |-> Format("", ""), typ |-> gt],
      set  |-> [vis |-> sv, name |-> Format("set_", ""), typ |-> st, full_option |-> fo],
      mut_ |-> [vis |-> mv, name |-> Format("mut_", "")],
      clr  |-> [vis |-> cv, name |-> Format("clear_", ""), scope |-> cs],
      skip |-> FALSE] :
        gv \in Visibilities, gt \in {"Auto", "Ref", "Copy_", "Clone_"},
        sv \in GenVisibilities, st \in {"Ref", "Own", "None_", "Replace"}, fo \in BOOLEAN,
        mv \in GenSwitches, cv \in GenSwitches, cs \in {"Auto", "Option_", "All"}}

InitGen ==
    /\ pc = "derive"
    /\ data = "named"
    /\ conf = FieldConf_default
    /\ seed = FieldConf_default
    /\ cur = NoField
    /\ \E ty \in GenTypes, c \in GenConfs :
          fields = <<[ident |-> "x", ty |-> ty, conf |-> c, attrs |-> <<>>]>>
    /\ methods = <<>>
    /\ err = "none"
    /\ cattrs = <<>>
    /\ meta = PathMeta("")
    /\ naming = None

SpecGen == InitGen /\ [][DeriveProperty]_vars

(***************************************************************************)
(* Vocabulary of the properties.                                           *)
(***************************************************************************)
Ops == {"get", "set", "mut", "clr"}

\* the methods of the output that belong to the field named id
MethodsOf(id) == SelectSeq(methods, LAMBDA d : d.field = id)

\* the methods of the output for the field named id and the operation op
MethodsFor(id, op) == SelectSeq(methods, LAMBDA d : d.field = id /\ d.op = op)

\* the error classes of the specification, by the message of the error
IsDuplicateOption(e) ==
    e \in {"this attribute has been set twice", "this kind of attribute has been set twice"}
IsConflictingNaming(e) == e = "do not set prefix or suffix if name was set"

\* the attribute entry m is a list for one of the four scopes
IsScopeList(m) == m.k = "List" /\ m.id \in Ops

\* the flags and the keys of the entries of a list
FlagsOf(nested) == {e.id : e \in {x \in Range(nested) : x.k = "Path"}}
KeysOf(nested) == {e.id : e \in {x \in Range(nested) : x.k = "NameValue"}}
VisFlagsOf(nested) == FlagsOf(nested) \cap Range(VISIBILITY_OPTIONS)

\* the entries of the property attributes among attrs, in their order
RECURSIVE EntriesOf(_)
EntriesOf(attrs) ==
    IF attrs = <<>> THEN <<>>
    ELSE (IF Head(attrs).id = ATTR_NAME THEN Head(attrs).nested ELSE <<>>)
             \o EntriesOf(Tail(attrs))

\* the record has the single field x: u32 and no property attribute at all
SingleBareU32 ==
    /\ Len(fields) = 1
    /\ fields[1].ty = U32
    /\ \A attr \in Range(cattrs) \cup Range(fields[1].attrs) : attr.id # ATTR_NAME

(***************************************************************************)
(* C1.  A record with exactly one unsigned-integer field and no property   *)
(* attribute yields exactly two methods, in this order: a crate-visible    *)
(* getter named after the field that returns a copy, and a crate-visible   *)
(* setter set_<field> taking a value convertible to the integer type and   *)
(* returning a reference to the owner; no mut and no clr method.           *)
(***************************************************************************)
C1_DefaultTwoMethods ==
    (pc = "done" /\ SingleBareU32) =>
        methods = <<Method("get", "x", "pub(crate)", "x", "&self", None,
                           Ret("own", U32), "self.f"),
                    Method("set", "x", "pub(crate)", "set_x", "&mut self",
                           Param("value", <<TypeArg(U32)>>), Ret("mut_self", <<>>),
                           "self.f = val.into()")>>

(***************************************************************************)
(* C2.  The mutable accessor is opt-in: a mut method is produced for a     *)
(* field only if the attributes of the container or of the field contain   *)
(* a mut(...) list with a visibility flag other than disable.              *)
(***************************************************************************)
EnablesMut(m) ==
    /\ m.k = "List"
    /\ m.id = "mut"
    /\ VisFlagsOf(m.nested) \cap {"public", "crate", "private"} # {}

C2_MutOptIn ==
    pc = "done" =>
        \A i \in 1..Len(fields) :
            MethodsFor(fields[i].ident, "mut") # <<>> =>
                \E m \in Range(EntriesOf(cattrs)) \cup Range(EntriesOf(fields[i].attrs)) :
                    EnablesMut(m)

(***************************************************************************)
(* C3.  Applying a clr(...) list changes only the clear configuration:     *)
(* clr.vis, clr.name and clr.scope take the values the list gives (or      *)
(* keep their previous values), and the get, set and mut configurations    *)
(* are what they were before.                                              *)
(***************************************************************************)
\* the visibility a list gives, as a VisibilityConf
GivenVis(nested) ==
    LET f == CHOOSE v \in VisFlagsOf(nested) : TRUE IN
    CASE f = "disable" -> "Disable" [] f = "public" -> "Public"
      [] f = "crate" -> "Crate" [] f = "private" -> "Private"

\* the scope = "..." value a list gives, as a ClrScopeConf
GivenScope(nested) ==
    LET e == CHOOSE x \in Range(nested) : x.k = "NameValue" /\ x.id = "scope" IN
    CASE e.val = "auto" -> "Auto" [] e.val = "option" -> "Option_" [] e.val = "all" -> "All"

C3_ClrChangesOnlyClr ==
    [][(pc = "attrs" /\ pc' = "applied" /\ meta'.k = "List" /\ meta'.id = "clr") =>
          /\ conf'.get = conf.get
          /\ conf'.set = conf.set
          /\ conf'.mut_ = conf.mut_
          /\ conf'.clr.vis = IF VisFlagsOf(meta'.nested) = {} THEN conf.clr.vis
                             ELSE GivenVis(meta'.nested)
          /\ conf'.clr.name = IF naming' = None THEN conf.clr.name ELSE naming'[1]
          /\ conf'.clr.scope = IF "scope" \in KeysOf(meta'.nested) THEN GivenScope(meta'.nested)
                               ELSE conf.clr.scope]_vars

(***************************************************************************)
(* C4.  For every field, every type and every operation op of get, set,    *)
(* mut, clr: if the field's configuration has visibility Disable for op,   *)
(* the output has no method for that field and op, whatever the other      *)
(* options are, and the methods of the field's other operations are the    *)
(* ones it gets when op is enabled.                                        *)
(***************************************************************************)
VisOf(c, op) ==
    CASE op = "get" -> c.get.vis [] op = "set" -> c.set.vis
      [] op = "mut" -> c.mut_.vis [] op = "clr" -> c.clr.vis

WithVis(c, op, v) ==
    CASE op = "get" -> [c EXCEPT !.get.vis = v] [] op = "set" -> [c EXCEPT !.set.vis = v]
      [] op = "mut" -> [c EXCEPT !.mut_.vis = v] [] op = "clr" -> [c EXCEPT !.clr.vis = v]

\* what the field f gets for the operations other than op when op has visibility v
OthersWhen(f, op, v) ==
    LET r == derive_property_for_field([f EXCEPT !.conf = WithVis(f.conf, op, v)]) IN
    IF r.ok THEN {SelectSeq(r.val, LAMBDA d : d.op # op)} ELSE {}

C4_DisableSuppresses ==
    pc = "done" =>
        \A i \in 1..Len(fields) : \A op \in Ops :
            (~fields[i].conf.skip /\ VisOf(fields[i].conf, op) = "Disable") =>
                /\ MethodsFor(fields[i].ident, op) = <<>>
                /\ \A v \in Visibilities \ {"Disable"} :
                      OthersWhen(fields[i], op, v) \subseteq {MethodsOf(fields[i].ident)}

\* set is disabled and the three other operations have their methods
C4_Witness ==
    /\ pc = "done"
    /\ fields[1].conf.set.vis = "Disable"
    /\ MethodsFor("x", "set") = <<>>
    /\ MethodsFor("x", "get") # <<>>
    /\ MethodsFor("x", "mut") # <<>>
    /\ MethodsFor("x", "clr") # <<>>

(***************************************************************************)
(* C5.  For a field of a primitive numeric type under the built-in default *)
(* configuration with the clear operation visible: the read method returns *)
(* a copy of the field, and a clear method is produced that assigns        *)
(* numeric zero to the field.                                              *)
(***************************************************************************)
\* the field's configuration is the built-in default, clr being visible
DefaultWithClr(f) ==
    /\ f.conf.clr.vis # "Disable"
    /\ WithVis(f.conf, "clr", FieldConf_default.clr.vis) = FieldConf_default

\* the field has exactly one method for op, and it has this return and body
OneMethod(f, op, ret, body) ==
    /\ Len(MethodsFor(f.ident, op)) = 1
    /\ MethodsFor(f.ident, op)[1].ret = ret
    /\ MethodsFor(f.ident, op)[1].body = body

C5_NumberDefault ==
    pc = "done" =>
        \A i \in 1..Len(fields) :
            (FieldType_from_type(fields[i].ty).tag = "Number" /\ DefaultWithClr(fields[i])) =>
                /\ OneMethod(fields[i], "get", Ret("own", fields[i].ty), "self.f")
                /\ OneMethod(fields[i], "clr", Ret("unit", <<>>), "self.f = 0")

(***************************************************************************)
(* C6.  For a field of type Vec<T> under the built-in default              *)
(* configuration with the clear operation visible: the read method returns *)
(* a borrowed slice of T, and a clear method is produced that calls the    *)
(* field's clear().                                                        *)
(***************************************************************************)
C6_VectorDefault ==
    pc = "done" =>
        \A i \in 1..Len(fields) :
            (FieldType_from_type(fields[i].ty).tag = "Vector" /\ DefaultWithClr(fields[i])) =>
                /\ OneMethod(fields[i], "get",
                       Ret("ref", SliceType(fields[i].ty.segs[1].args[1].ty)), "&self.f[..]")
                /\ OneMethod(fields[i], "clr", Ret("unit", <<>>), "self.f.clear()")

(***************************************************************************)
(* C7.  The parameter of the write method is decided by the type's class   *)
(* and full_option alone, for each of the variants Ref, Own, None and      *)
(* Replace: a Vec<elem> field takes a sequence of values convertible to    *)
(* elem; an Option<inner> field without full_option takes one value        *)
(* convertible to inner and stores it wrapped; every other field, an       *)
(* Option with full_option included, takes one value convertible to the    *)
(* declared type and assigns it.                                           *)
(***************************************************************************)
\* the parameter and the stored value of a setter of the field f
SetShape(f) ==
    LET t == FieldType_from_type(f.ty) IN
    CASE t.tag = "Vector" ->
            [param |-> Param("iter", <<TypeArg(f.ty.segs[1].args[1].ty)>>), store |-> "collect"]
      [] t.tag = "Option" /\ ~f.conf.set.full_option ->
            [param |-> Param("value", f.ty.segs[1].args), store |-> "wrap"]
      [] OTHER ->
            [param |-> Param("value", <<TypeArg(f.ty)>>), store |-> "assign"]

\* the bodies that store the value in that way, one per variant
Stores(store, typ) ==
    CASE store = "collect" ->
            IF typ = "Replace"
            THEN "mem::replace(&mut self.f, val.into_iter().map(Into::into).collect())"
            ELSE "self.f = val.into_iter().map(Into::into).collect()"
      [] store = "wrap" ->
            IF typ = "Replace" THEN "self.f.replace(val.into())" ELSE "self.f = Some(val.into())"
      [] store = "assign" ->
            IF typ = "Replace" THEN "mem::replace(&mut self.f, val.into())"
            ELSE "self.f = val.into()"

C7_SetParameter ==
    pc = "done" =>
        \A i \in 1..Len(fields) :
            (~fields[i].conf.skip /\ fields[i].conf.set.vis # "Disable") =>
                /\ Len(MethodsFor(fields[i].ident, "set")) = 1
                /\ MethodsFor(fields[i].ident, "set")[1].param = SetShape(fields[i]).param
                /\ MethodsFor(fields[i].ident, "set")[1].body =
                       Stores(SetShape(fields[i]).store, fields[i].conf.set.typ)

\* an Option<u32> field with full_option: the setter takes Into<Option<u32>>
C7_Witness ==
    /\ pc = "done"
    /\ fields[1].ty = Generic("Option", <<TypeArg(U32)>>)
    /\ fields[1].conf.set.full_option
    /\ fields[1].conf.set.typ = "Replace"
    /\ Len(MethodsFor("x", "set")) = 1
    /\ MethodsFor("x", "set")[1].param =
           Param("value", <<TypeArg(Generic("Option", <<TypeArg(U32)>>))>>)

(***************************************************************************)
(* Vocabulary of the properties about one scope list.                      *)
(***************************************************************************)
\* apply_attrs has been called on a list for one of the four scopes
ListApplied == pc \in {"applied", "failed"} /\ IsScopeList(meta)

\* the list repeats a flag, gives two visibility flags, or repeats a key
Repeats(nested) ==
    \E i, j \in 1..Len(nested) :
        /\ i < j
        /\ nested[i].k = nested[j].k
        /\ \/ nested[i].k \in {"Path", "NameValue"} /\ nested[i].id = nested[j].id
           \/ /\ nested[i].k = "Path"
              /\ {nested[i].id, nested[j].id} \subseteq Range(VISIBILITY_OPTIONS)

\* the entry is a bare flag or a key = "string" pair
WellFormed(e) == e.k = "Path" \/ (e.k = "NameValue" /\ e.str)

\* the flags that the scope permits
PermittedFlags(scope) ==
    Range(VISIBILITY_OPTIONS) \cup (IF scope = "set" THEN Range(SET_OPTION_FULL_OPTION) ELSE {})

\* the key = "value" pair is one that the scope permits
PermittedPair(scope, e) ==
    \/ e.id \in {"name", "prefix", "suffix"}
    \/ e.id = "type" /\ scope = "get" /\ e.val \in Range(GET_TYPE_OPTIONS.group[1])
    \/ e.id = "type" /\ scope = "set" /\ e.val \in Range(SET_TYPE_OPTIONS.group[1])
    \/ e.id = "scope" /\ scope = "clr" /\ e.val \in Range(CLR_TYPE_OPTIONS.group[1])

\* every entry of the list is well formed and permitted, and none is repeated
ValidEntries(m) ==
    /\ \A e \in Range(m.nested) : WellFormed(e)
    /\ ~Repeats(m.nested)
    /\ FlagsOf(m.nested) \subseteq PermittedFlags(m.id)
    /\ \A e \in Range(m.nested) : e.k = "NameValue" => PermittedPair(m.id, e)

(***************************************************************************)
(* C8.  Within one scope list, parsing fails when the same bare flag       *)
(* appears twice, when two visibility flags appear, or when the same key   *)
(* appears twice, wherever the repeated entries stand in the list.  The    *)
(* error is a duplicate-option error whenever every entry of the list is   *)
(* a bare flag or a key = "string" pair and every flag is one the scope    *)
(* permits.                                                                *)
(***************************************************************************)
C8_RepeatFails ==
    (ListApplied /\ Repeats(meta.nested)) =>
        /\ pc = "failed"
        /\ ((/\ \A e \in Range(meta.nested) : WellFormed(e)
             /\ FlagsOf(meta.nested) \subseteq PermittedFlags(meta.id))
               => IsDuplicateOption(err))

\* C8 as first stated: the failure is always a duplicate-option error
C8_AlwaysDuplicateOption ==
    (ListApplied /\ Repeats(meta.nested)) => (pc = "failed" /\ IsDuplicateOption(err))

\* two visibility flags around a valid key are rejected as a duplicate
C8_Witness ==
    /\ pc = "failed"
    /\ meta = ListMeta("get", <<PathEntry("public"), NameValueEntry("name", "a"),
                                PathEntry("crate")>>)
    /\ err = "this kind of attribute has been set twice"

(***************************************************************************)
(* C9.  Each key is settable at most once per scope for a field (or for    *)
(* the container): when the attribute entries of one field contain two     *)
(* lists for the same scope that set the same key, parsing fails with a    *)
(* duplicate-option error.                                                 *)
(***************************************************************************)
\* two lists for the same scope that set the same flag, visibility or key
SetSameKey(a, b) ==
    /\ IsScopeList(a) /\ IsScopeList(b) /\ a.id = b.id
    /\ \/ FlagsOf(a.nested) \cap FlagsOf(b.nested) # {}
       \/ VisFlagsOf(a.nested) # {} /\ VisFlagsOf(b.nested) # {}
       \/ KeysOf(a.nested) \cap KeysOf(b.nested) # {}

SetsTwice(attrs) ==
    \E i, j \in 1..Len(attrs) : i < j /\ SetSameKey(attrs[i], attrs[j])

C9_OncePerScope ==
    \A attrs \in {cattrs, cur.attrs} \cup {fields[i].attrs : i \in 1..Len(fields)} :
        SetsTwice(EntriesOf(attrs)) => (pc = "failed" /\ IsDuplicateOption(err))

(***************************************************************************)
(* C10.  In any of the four scopes, a list that has `name` together with   *)
(* `prefix` or `suffix` fails, whatever the order of its entries, and      *)
(* with a conflicting-naming error whenever its entries are otherwise      *)
(* valid; a list with `name` alone builds an explicit name, a list with    *)
(* `prefix` or `suffix` alone builds a prefix/suffix rule.                 *)
(***************************************************************************)
HasName(nested) == "name" \in KeysOf(nested)
HasAffix(nested) == KeysOf(nested) \cap {"prefix", "suffix"} # {}

\* the value that the list gives to the key, dflt when it does not give it
ValueOf(nested, key, dflt) ==
    IF key \in KeysOf(nested)
    THEN (CHOOSE e \in Range(nested) : e.k = "NameValue" /\ e.id = key).val
    ELSE dflt

\* the naming rule that the list asks for, when it asks for one
NamingAsked(nested) ==
    IF HasName(nested) /\ ~HasAffix(nested) THEN Some(Name(ValueOf(nested, "name", "")))
    ELSE IF ~HasName(nested) /\ HasAffix(nested)
    THEN Some(Format(ValueOf(nested, "prefix", ""), ValueOf(nested, "suffix", "")))
    ELSE None

C10_NameExcludesAffix ==
    ListApplied =>
        /\ (HasName(meta.nested) /\ HasAffix(meta.nested)) =>
              /\ pc = "failed"
              /\ ValidEntries(meta) => IsConflictingNaming(err)
        /\ (pc = "applied" /\ (HasName(meta.nested) \/ HasAffix(meta.nested))) =>
              naming = NamingAsked(meta.nested)

\* C10 as first stated: the failure is always a conflicting-naming error
C10_AlwaysConflictingNaming ==
    ListApplied =>
        /\ (HasName(meta.nested) /\ HasAffix(meta.nested)) =>
              (pc = "failed" /\ IsConflictingNaming(err))
        /\ (pc = "applied" /\ (HasName(meta.nested) \/ HasAffix(meta.nested))) =>
              naming = NamingAsked(meta.nested)

\* a suffix before a name, in the clr scope, is rejected as a conflict
C10_Witness ==
    /\ pc = "failed"
    /\ meta = ListMeta("clr", <<NameValueEntry("suffix", "s"), PathEntry("public"),
                                NameValueEntry("name", "a")>>)
    /\ err = "do not set prefix or suffix if name was set"

(***************************************************************************)
(* C11.  Unknown options are always rejected: a list whose name is not     *)
(* get, set, mut or clr, a bare flag or a key that its scope does not      *)
(* permit, and a `type` or `scope` value outside the scope's enumerated    *)
(* set each make apply_attrs fail; none is silently ignored.               *)
(***************************************************************************)
\* the meta has an option that the claim calls unknown
HasUnknown(m) ==
    \/ m.k = "Path" /\ m.id # SKIP
    \/ m.k = "List" /\ m.id \notin Ops
    \/ /\ IsScopeList(m)
       /\ \/ ~(FlagsOf(m.nested) \subseteq PermittedFlags(m.id))
          \/ \E e \in Range(m.nested) : e.k = "NameValue" /\ ~PermittedPair(m.id, e)

C11_UnknownRejected ==
    (pc \in {"applied", "failed"} /\ HasUnknown(meta)) =>
        pc = "failed"

\* a `type` value outside the enumerated set of get, after a valid flag
C11_Witness ==
    /\ pc = "failed"
    /\ meta = ListMeta("get", <<PathEntry("public"), NameValueEntry("type", "bad")>>)
    /\ err = "this attribute was unknown"

(***************************************************************************)
(* C12.  A bare `skip` among the attribute entries of a field sets skip    *)
(* for that field and no other option of the field is processed: the       *)
(* entries that accompany it, before or after it, valid or invalid,        *)
(* neither change the field's configuration nor cause a parse error, and   *)
(* the skipped field has no method in the output.                          *)
(***************************************************************************)
\* the attributes are all of the form #[property(entry, ...)], one entry being `skip`
SkipAmongEntries(attrs) ==
    /\ \A attr \in Range(attrs) : attr = PropertyAttr(attr.nested) /\ attr.nested # <<>>
    /\ PathMeta(SKIP) \in Range(EntriesOf(attrs))

C12_SkipStopsProcessing ==
    /\ SkipAmongEntries(cur.attrs) => pc # "failed"
    /\ \A i \in 1..Len(fields) :
          SkipAmongEntries(fields[i].attrs) =>
              /\ fields[i].conf = [seed EXCEPT !.skip = TRUE]
              /\ pc = "done" => MethodsOf(fields[i].ident) = <<>>

(***************************************************************************)
(* C13.  Parsing is all-or-nothing: when the attributes of the container   *)
(* or of any field give an error, the invocation yields that error, no     *)
(* field and no method, the fields parsed before the failing one           *)
(* included; when there is no error, the output has the methods of every   *)
(* field that is not skipped.                                              *)
(***************************************************************************)
C13_AllOrNothing ==
    /\ (pc = "failed") <=> (err # "none")
    /\ pc = "failed" => (fields = <<>> /\ methods = <<>>)
    /\ methods # <<>> => pc = "done"
    /\ pc = "done" =>
          \A i \in 1..Len(fields) :
              IF fields[i].conf.skip
              THEN MethodsOf(fields[i].ident) = <<>>
              ELSE Ok(MethodsOf(fields[i].ident)) = derive_property_for_field(fields[i])

\* the second field fails after the first one has been parsed
C13_Witness ==
    /\ pc = "failed"
    /\ cur.ident = FieldIdent(2)
    /\ cur.attrs = <<PropertyAttr(<<PathMeta("bogus")>>)>>
    /\ err = "this attribute was unknown"
    /\ fields = <<>>
    /\ methods = <<>>

(***************************************************************************)
(* C14.  Every successfully parsed ContainerDef has at least one field: a  *)
(* record without named fields, a tuple or unit record, an enum and a      *)
(* union are each rejected with an error and produce no output.            *)
(***************************************************************************)
C14_AtLeastOneField ==
    /\ pc \in {"derive", "done", "panicked"} => (data = "named" /\ Len(fields) >= 1)
    /\ (pc # "start" /\ data \in {"unnamed", "unit"}) =>
          (pc = "failed" /\ err = "only support named fields" /\ methods = <<>>)
    /\ (pc # "start" /\ data \in {"enum", "union"}) =>
          (pc = "failed" /\ err = "only support structs" /\ methods = <<>>)

\* a record with no named field is rejected
C14_Witness ==
    /\ pc = "failed"
    /\ data = "named"
    /\ cur = NoField
    /\ err = "nothing can do for an empty struct"
    /\ methods = <<>>

(***************************************************************************)
(* C15.  Classification and the Auto read shape are a function of the      *)
(* type expression only: two fields of one record with the same type       *)
(* expression get getters of the same shape under get type Auto, whatever  *)
(* their names, their visibilities and their positions in the record.      *)
(***************************************************************************)
\* the field has a getter whose shape Auto decided
AutoGetter(f) ==
    /\ ~f.conf.skip
    /\ f.conf.get.typ = "Auto"
    /\ Len(MethodsFor(f.ident, "get")) = 1

\* what a getter returns and how: its receiver, its return type, its body
ReadShape(f) ==
    LET d == MethodsFor(f.ident, "get")[1] IN <<d.recv, d.param, d.ret, d.body>>

C15_ReadShapeByTypeOnly ==
    pc = "done" =>
        \A i, j \in 1..Len(fields) :
            (fields[i].ty = fields[j].ty /\ AutoGetter(fields[i]) /\ AutoGetter(fields[j])) =>
                /\ FieldType_from_type(fields[i].ty) = FieldType_from_type(fields[j].ty)
                /\ ReadShape(fields[i]) = ReadShape(fields[j])

\* two Option<u32> fields, the first one with a public getter
C15_Witness ==
    /\ pc = "done"
    /\ Len(fields) = 2
    /\ fields[1].ty = Generic("Option", <<TypeArg(U32)>>)
    /\ fields[2].ty = fields[1].ty
    /\ fields[1].conf.get.vis = "Public"
    /\ fields[2].conf.get.vis = "Crate"
    /\ AutoGetter(fields[1])
    /\ AutoGetter(fields[2])
    /\ MethodsFor("x", "get")[1].name # MethodsFor("y", "get")[1].name

(***************************************************************************)
(* C16.  Classification is total: for every field type it returns one tag  *)
(* and never aborts.  A path named Vec, Box or Option without the generic  *)
(* arguments its rule requires (no angle-bracketed arguments, an empty     *)
(* argument list, a first argument that is not a type, or for Vec a number *)
(* of type arguments other than one) is classified Unhandled.              *)
(***************************************************************************)
\* the first segment of the path has the arguments that the rule of its name requires
ProperArguments(seg) ==
    /\ seg.angle
    /\ seg.args # <<>>
    /\ seg.args[1].kind = "Type"
    /\ seg.ident = "Vec" => Len(seg.args) = 1

\* a path named Vec, Box or Option that lacks the arguments of its rule
Malformed(ty) ==
    /\ ty.kind = "Path"
    /\ ty.segs # <<>>
    /\ ty.segs[1].ident \in {"Vec", "Box", "Option"}
    /\ ~ProperArguments(ty.segs[1])

C16_ClassificationTotal ==
    /\ pc # "panicked"
    /\ \A i \in 1..Len(fields) :
          /\ FieldType_from_type(fields[i].ty).tag # "Panicked"
          /\ Malformed(fields[i].ty) => FieldType_from_type(fields[i].ty).tag = "Unhandled"

(***************************************************************************)
(* Vocabulary of the properties about the getter of a field.               *)
(***************************************************************************)
\* the field is classified and has exactly one getter
HasGetter(f) ==
    /\ ~f.conf.skip
    /\ f.conf.get.vis # "Disable"
    /\ Len(MethodsFor(f.ident, "get")) = 1

\* the return type and the body of the getter of the field
Getter(f) == LET d == MethodsFor(f.ident, "get")[1] IN <<d.ret, d.body>>

\* the shapes of a getter, for a field of type ty
ByRef(ty) == <<Ret("ref", ty), "&self.f">>
ByCopy(ty) == <<Ret("own", ty), "self.f">>
ByClone(ty) == <<Ret("own", ty), "self.f.clone()">>
AsStr == <<Ret("ref", Simple("str")), "&self.f[..]">>
AsSlice(elem) == <<Ret("ref", SliceType(elem)), "&self.f[..]">>
AsOptionRef(args) == <<Ret("option_ref", args), "self.f.as_ref()">>

(***************************************************************************)
(* C17.  With get type Auto, a Number, Boolean or Character field gets a   *)
(* getter that returns a copy, a String field one that returns &str, a     *)
(* Vec<elem> or [elem; len] field one that returns &[elem], and an         *)
(* Unhandled field one that returns a reference to the field; with get     *)
(* type Ref, Copy or Clone the getter returns a reference to the field, a  *)
(* copy or a clone, for every class of type.                               *)
(***************************************************************************)
C17_ReadShape ==
    pc = "done" =>
        \A i \in 1..Len(fields) :
            LET f == fields[i]
                t == FieldType_from_type(f.ty)
            IN  /\ (~f.conf.skip /\ f.conf.get.vis # "Disable") => HasGetter(f)
                /\ HasGetter(f) =>
                      CASE f.conf.get.typ = "Ref" -> Getter(f) = ByRef(f.ty)
                        [] f.conf.get.typ = "Copy_" -> Getter(f) = ByCopy(f.ty)
                        [] f.conf.get.typ = "Clone_" -> Getter(f) = ByClone(f.ty)
                        [] f.conf.get.typ = "Auto" ->
                             CASE t.tag \in {"Number", "Boolean", "Character"} ->
                                      Getter(f) = ByCopy(f.ty)
                               [] t.tag = "String" -> Getter(f) = AsStr
                               [] t.tag = "Vector" -> Getter(f) = AsSlice(f.ty.segs[1].args[1].ty)
                               [] t.tag = "Array" -> Getter(f) = AsSlice(f.ty.elem)
                               [] t.tag = "Unhandled" -> Getter(f) = ByRef(f.ty)
                               [] OTHER -> TRUE

\* an array read under Auto: the getter returns a slice of its elements
C17_Witness ==
    /\ pc = "done"
    /\ fields[1].ty = ArrayType(Simple("u8"), 4)
    /\ fields[1].conf.get.typ = "Auto"
    /\ HasGetter(fields[1])
    /\ Getter(fields[1]) = AsSlice(Simple("u8"))

(***************************************************************************)
(* C18.  With get type Auto, a Box field with exactly one type argument T  *)
(* gets a getter that returns a reference to the pointee, &T and not       *)
(* &Box<T>; when the pointee is str, the getter returns &str.              *)
(***************************************************************************)
C18_BoxedPointee ==
    pc = "done" =>
        \A i \in 1..Len(fields) :
            LET f == fields[i]
                t == FieldType_from_type(f.ty)
            IN  (/\ HasGetter(f)
                 /\ f.conf.get.typ = "Auto"
                 /\ t.tag = "Box"
                 /\ Len(t.args) = 1
                 /\ t.args[1].kind = "Type") =>
                    Getter(f)[1] = Ret("ref", t.args[1].ty)

(***************************************************************************)
(* C19.  With get type Auto, an Option field with exactly one type         *)
(* argument A gets a getter that returns the field by value if and only    *)
(* if A resolves to a copy by the same rule, at any depth of nesting;      *)
(* otherwise, and whenever the Option has a number of arguments other      *)
(* than one, the getter returns Option<&A>.                                *)
(***************************************************************************)
\* the type is read by copy under Auto: a number, a bool, a char, or an
\* Option with one argument that is itself read by copy
RECURSIVE ReadByCopy(_)
ReadByCopy(ty) ==
    LET t == FieldType_from_type(ty) IN
    \/ t.tag \in {"Number", "Boolean", "Character"}
    \/ /\ t.tag = "Option"
       /\ Len(t.args) = 1
       /\ t.args[1].kind = "Type"
       /\ ReadByCopy(t.args[1].ty)

C19_OptionReadShape ==
    pc = "done" =>
        \A i \in 1..Len(fields) :
            LET f == fields[i]
                t == FieldType_from_type(f.ty)
            IN  (HasGetter(f) /\ f.conf.get.typ = "Auto" /\ t.tag = "Option") =>
                    Getter(f) = IF ReadByCopy(f.ty) THEN ByCopy(f.ty) ELSE AsOptionRef(t.args)

\* a nested Option of a number is read by copy
C19_Witness ==
    /\ pc = "done"
    /\ fields[1].ty = Generic("Option", <<TypeArg(Generic("Option", <<TypeArg(U32)>>))>>)
    /\ fields[1].conf.get.typ = "Auto"
    /\ HasGetter(fields[1])
    /\ Getter(fields[1]) = ByCopy(fields[1].ty)

(***************************************************************************)
(* C20.  The natural clear action comes from the class of the type alone:  *)
(* a number is set to zero, an Option to None, a bool or a char to the     *)
(* default, a String or a Vec is cleared, an array is filled with the      *)
(* default; an Unhandled type is cleared exactly when its trailing name    *)
(* is one of String, PathBuf, Vec, VecDeque, LinkedList, HashMap,          *)
(* BTreeMap, HashSet, BTreeSet and BinaryHeap; every other type, a Box     *)
(* included, has no action.  The action is seen under clr scope Auto.      *)
(***************************************************************************)
\* the container names of the claim, and the names that the code clears
EightNames ==
    {"Vec", "VecDeque", "LinkedList", "HashMap", "BTreeMap", "HashSet", "BTreeSet",
     "BinaryHeap"}
TenNames == EightNames \cup {"String", "PathBuf"}

\* the name of the last segment of a path type
HasTrailingName(ty, names) ==
    /\ ty.kind = "Path"
    /\ ty.segs # <<>>
    /\ ty.segs[Len(ty.segs)].ident \in names

\* the body of the natural clear action of the type, "" when it has none;
\* tags are the classes that are cleared by their trailing name
NaturalClear(ty, tags, names) ==
    LET t == FieldType_from_type(ty) IN
    CASE t.tag = "Number" -> "self.f = 0"
      [] t.tag = "Option" -> "self.f = None"
      [] t.tag \in {"Boolean", "Character"} -> "self.f = Default::default()"
      [] t.tag \in {"String", "Vector"} -> "self.f.clear()"
      [] t.tag = "Array" -> "self.f.fill_with(Default::default)"
      [] t.tag \in tags /\ HasTrailingName(ty, names) -> "self.f.clear()"
      [] OTHER -> ""

\* the clr method of every field under scope Auto is the natural action
ClearIsNatural(tags, names) ==
    pc = "done" =>
        \A i \in 1..Len(fields) :
            LET f == fields[i] IN
            (~f.conf.skip /\ f.conf.clr.vis # "Disable" /\ f.conf.clr.scope = "Auto") =>
                IF NaturalClear(f.ty, tags, names) = ""
                THEN MethodsFor(f.ident, "clr") = <<>>
                ELSE /\ Len(MethodsFor(f.ident, "clr")) = 1
                     /\ MethodsFor(f.ident, "clr")[1].body = NaturalClear(f.ty, tags, names)

C20_NaturalClear == ClearIsNatural({"Unhandled"}, TenNames)

\* C20 as first stated: a Box or an Unhandled type, eight names
C20_EightNames == ClearIsNatural({"Box", "Unhandled"}, EightNames)

\* a PathBuf field is cleared under scope Auto
C20_Witness ==
    /\ pc = "done"
    /\ fields[1].ty = Simple("PathBuf")
    /\ fields[1].conf.clr.scope = "Auto"
    /\ Len(MethodsFor("x", "clr")) = 1
    /\ MethodsFor("x", "clr")[1].body = "self.f.clear()"

(***************************************************************************)
(* C21.  The clear action of a field is its natural action a resolved      *)
(* under the clear scope: Auto gives a; Option gives assign-absent when a  *)
(* is assign-absent and no action otherwise; All gives assign-default      *)
(* when a is no action and a otherwise.  A field has a clr method exactly  *)
(* when its clr visibility is not Disable and the resolved action is not   *)
(* no action, and the method performs the resolved action; so under All    *)
(* every field with an enabled clr has a clr method, and under Option      *)
(* exactly the Option fields have one.                                     *)
(***************************************************************************)
\* the body of the clear action that the scope makes of the natural one
ResolvedClear(scope, a) ==
    CASE scope = "Auto" -> a
      [] scope = "Option_" -> IF a = "self.f = None" THEN a ELSE ""
      [] scope = "All" -> IF a = "" THEN "self.f = Default::default()" ELSE a

C21_ClearScope ==
    pc = "done" =>
        \A i \in 1..Len(fields) :
            LET f == fields[i]
                a == NaturalClear(f.ty, {"Unhandled"}, TenNames)
                r == ResolvedClear(f.conf.clr.scope, a)
                clr == MethodsFor(f.ident, "clr")
            IN  ~f.conf.skip =>
                  /\ IF f.conf.clr.vis = "Disable" \/ r = ""
                     THEN clr = <<>>
                     ELSE Len(clr) = 1 /\ clr[1].body = r
                  /\ (f.conf.clr.vis # "Disable" /\ f.conf.clr.scope = "All") => Len(clr) = 1
                  /\ (f.conf.clr.vis # "Disable" /\ f.conf.clr.scope = "Option_") =>
                        (Len(clr) = 1 <=> FieldType_from_type(f.ty).tag = "Option")

\* under scope All a field of the unknown type Foo is assigned its default
C21_Witness ==
    /\ pc = "done"
    /\ fields[1].conf.clr.scope = "All"
    /\ fields[1].conf.clr.vis = "Crate"
    /\ fields[1].ty = Simple("Foo")
    /\ Len(MethodsFor("x", "clr")) = 1
    /\ MethodsFor("x", "clr")[1].body = "self.f = Default::default()"

(***************************************************************************)
(* C22.  The output lists the methods field by field in the order of       *)
(* declaration, a skipped field giving none, and within one field in the   *)
(* order get, set, mut, clr, each operation at most once per field.        *)
(***************************************************************************)
\* the position of the field named id in the declaration, 0 if there is none
FieldIndex(id) ==
    IF \E i \in 1..Len(fields) : fields[i].ident = id
    THEN CHOOSE i \in 1..Len(fields) : fields[i].ident = id
    ELSE 0

\* the place of an operation in the order get, set, mut, clr
OpRank(op) == CASE op = "get" -> 1 [] op = "set" -> 2 [] op = "mut" -> 3 [] op = "clr" -> 4

\* stated on neighbours in the output: both orders are transitive
C22_OutputOrder ==
    pc = "done" =>
        /\ \A p \in 1..Len(methods) :
              /\ methods[p].op \in Ops
              /\ FieldIndex(methods[p].field) # 0
              /\ ~fields[FieldIndex(methods[p].field)].conf.skip
        /\ \A p \in 1..(Len(methods) - 1) :
              \/ FieldIndex(methods[p].field) < FieldIndex(methods[p + 1].field)
              \/ /\ methods[p].field = methods[p + 1].field
                 /\ OpRank(methods[p].op) < OpRank(methods[p + 1].op)

\* two fields with methods: the four methods of an Option field x, then
\* the methods of y
C22_Witness ==
    /\ pc = "done"
    /\ Len(fields) = 2
    /\ [p \in 1..Len(MethodsOf("x")) |-> MethodsOf("x")[p].op] = <<"get", "set", "mut", "clr">>
    /\ Len(MethodsOf("y")) >= 3
    /\ Len(methods) = 4 + Len(MethodsOf("y"))
    /\ methods[5].field = "y"

(***************************************************************************)
(* C23.  The configuration of a field is the built-in default, overridden  *)
(* by the attributes of the container, overridden by the attributes of     *)
(* the field: an option that the attributes of the field do not mention    *)
(* keeps the value seeded by the container, so a set(full_option) of the   *)
(* container stays in force for a field with a set(..) list that has no    *)
(* full_option flag, and fields with the same attributes have the same     *)
(* configuration whatever the other fields are given.                      *)
(***************************************************************************)
\* the lists for scope among the entries of attrs
ListsOf(attrs, scope) ==
    {m \in Range(EntriesOf(attrs)) : m.k = "List" /\ m.id = scope}

\* some list for scope among attrs has a flag of flags, a key of keys
MentionsFlag(attrs, scope, flags) ==
    \E m \in ListsOf(attrs, scope) : FlagsOf(m.nested) \cap flags # {}
MentionsKey(attrs, scope, keys) ==
    \E m \in ListsOf(attrs, scope) : KeysOf(m.nested) \cap keys # {}

\* the scope record of a configuration
ScopeConf(c, scope) ==
    CASE scope = "get" -> c.get [] scope = "set" -> c.set
      [] scope = "mut" -> c.mut_ [] scope = "clr" -> c.clr

\* the options that attrs do not mention have in c the value they have in s
KeepsUnmentioned(attrs, c, s) ==
    /\ \A scope \in Ops :
          /\ MentionsFlag(attrs, scope, Range(VISIBILITY_OPTIONS))
                \/ ScopeConf(c, scope).vis = ScopeConf(s, scope).vis
          /\ MentionsKey(attrs, scope, {"name", "prefix", "suffix"})
                \/ ScopeConf(c, scope).name = ScopeConf(s, scope).name
    /\ MentionsKey(attrs, "get", {"type"}) \/ c.get.typ = s.get.typ
    /\ MentionsKey(attrs, "set", {"type"}) \/ c.set.typ = s.set.typ
    /\ MentionsKey(attrs, "clr", {"scope"}) \/ c.clr.scope = s.clr.scope
    /\ MentionsFlag(attrs, "set", {"full_option"}) \/ c.set.full_option = s.set.full_option
    /\ (\E m \in Range(EntriesOf(attrs)) : m.k = "Path" /\ m.id = "skip") \/ c.skip = s.skip

C23_Cascade ==
    pc \in {"fields", "field_attrs", "derive", "done"} =>
        /\ KeepsUnmentioned(cattrs, seed, FieldConf_default)
        /\ \A i \in 1..Len(fields) : KeepsUnmentioned(fields[i].attrs, fields[i].conf, seed)
        /\ \A i, j \in 1..Len(fields) :
              fields[i].attrs = fields[j].attrs => fields[i].conf = fields[j].conf

(***************************************************************************)
(* C24.  The known type names are matched against the first segment of a   *)
(* path and the name kept for an Unhandled type is its last segment: a     *)
(* qualified path such as std::string::String, std::vec::Vec<T> or         *)
(* std::option::Option<T> is Unhandled(Some(trailing name)), not String,   *)
(* Vector or Option.  Under Auto its getter returns a reference to the     *)
(* declared type, its setter takes a value convertible to the declared     *)
(* type, and its natural clear action is clear() exactly when the          *)
(* trailing name is one of the ten names that the code clears.             *)
(***************************************************************************)
\* the names that FieldType::from_type knows
KnownNames ==
    {"f32", "f64", "i8", "i16", "i32", "i64", "i128", "isize",
     "u8", "u16", "u32", "u64", "u128", "usize",
     "bool", "char", "String", "Vec", "Box", "Option"}

\* a path of several segments, the first one not a known name, the last
\* one a known name
QualifiedKnown(ty) ==
    /\ ty.kind = "Path"
    /\ Len(ty.segs) >= 2
    /\ ty.segs[1].ident \notin KnownNames
    /\ HasTrailingName(ty, KnownNames)

C24_FirstSegment ==
    pc = "done" =>
        \A i \in 1..Len(fields) :
            LET f == fields[i]
                set == MethodsFor(f.ident, "set")
                clr == MethodsFor(f.ident, "clr")
            IN  (~f.conf.skip /\ QualifiedKnown(f.ty)) =>
                  /\ FieldType_from_type(f.ty) = Unhandled(Some(f.ty.segs[Len(f.ty.segs)].ident))
                  /\ (HasGetter(f) /\ f.conf.get.typ = "Auto") => Getter(f) = ByRef(f.ty)
                  /\ f.conf.set.vis # "Disable" =>
                        /\ Len(set) = 1
                        /\ set[1].param = Param("value", <<TypeArg(f.ty)>>)
                        /\ set[1].body = Stores("assign", f.conf.set.typ)
                  /\ (f.conf.clr.vis # "Disable" /\ f.conf.clr.scope = "Auto") =>
                        IF HasTrailingName(f.ty, TenNames)
                        THEN Len(clr) = 1 /\ clr[1].body = "self.f.clear()"
                        ELSE clr = <<>>
                  /\ (f.conf.clr.vis # "Disable" /\ f.conf.clr.scope = "Option_") => clr = <<>>

\* a std::vec::Vec<u32> field: read by reference, set as a whole, cleared
C24_Witness ==
    /\ pc = "done"
    /\ fields[1].ty = PathType(<<Seg("std"), Seg("vec"), SegArgs("Vec", <<TypeArg(U32)>>)>>)
    /\ fields[1].conf.get.typ = "Auto"
    /\ fields[1].conf.clr.scope = "Auto"
    /\ HasGetter(fields[1])
    /\ Getter(fields[1]) = ByRef(fields[1].ty)
    /\ Len(MethodsFor("x", "set")) = 1
    /\ MethodsFor("x", "set")[1].param = Param("value", <<TypeArg(fields[1].ty)>>)
    /\ Len(MethodsFor("x", "clr")) = 1
    /\ MethodsFor("x", "clr")[1].body = "self.f.clear()"

(***************************************************************************)
(* C25.  The name of a method is the explicit name when the naming rule    *)
(* of its operation is explicit, and otherwise prefix, field identifier    *)
(* and suffix put together; the built-in rules have the prefixes "" for    *)
(* get, set_, mut_ and clear_ and empty suffixes.  A get, set or mut list  *)
(* that gives only a prefix or only a suffix replaces the whole rule, the  *)
(* half it does not give becoming empty: set(suffix = "_v") on x names     *)
(* the setter x_v.  Stated for records without a clr list, whose naming    *)
(* keys are the subject of C3.                                             *)
(***************************************************************************)
\* the built-in naming rule of the operation
BuiltinNaming(op) ==
    CASE op = "get" -> Format("", "") [] op = "set" -> Format("set_", "")
      [] op = "mut" -> Format("mut_", "") [] op = "clr" -> Format("clear_", "")

\* the naming rule of op after the entries: the last list for op with a
\* naming key decides, the rule so far is kept by the other entries
RECURSIVE NamingAfter(_, _, _)
NamingAfter(entries, op, rule) ==
    IF entries = <<>> THEN rule
    ELSE LET m == Head(entries) IN
         NamingAfter(Tail(entries), op,
             IF m.k = "List" /\ m.id = op /\ NamingAsked(m.nested) # None
             THEN NamingAsked(m.nested)[1]
             ELSE rule)

\* the name that the rule gives to the method of the field named id
NameBy(rule, id) ==
    IF rule.kind = "Name" THEN rule.name ELSE rule.prefix \o id \o rule.suffix

====
